---- MODULE Spec2Model ----
(***************************************************************************)
(* Insta Repo (src/insta_repo.py): the Gemini call protocol of             *)
(* generate_content_with_ai, the four AI handlers that merge its result    *)
(* into st.session_state.data, and the Streamlit script run (main) that    *)
(* renders the widgets and gates the generation buttons on ai_loading.     *)
(*                                                                         *)
(* A Python string is a sequence of tokens.  The tokens " " and "\n" are   *)
(* white space, "," is a comma, "Error" is the five letters that           *)
(* str.startswith('Error') looks for, "429" is the digits that             *)
(* '429' in str(e) looks for; every other token is an opaque run of        *)
(* characters without commas, without leading or trailing white space,     *)
(* and that does not begin with "Error".                                   *)
(***************************************************************************)
EXTENDS Integers, Sequences, FiniteSets, TLC

\* ---------------------------------------------------------------- bounds
\* user interactions (widget events) in one session
MaxOps == 3
\* entries one section may hold before its Add button is no longer pressed
MaxEntries == 2

\* ------------------------------------------------------ program constants
MAX_RETRIES == 5

\* ------------------------------------------------------------ str methods
WhiteSpace == {" ", "\n"}

RECURSIVE lstrip(_)
lstrip(s) == IF s # <<>> /\ Head(s) \in WhiteSpace THEN lstrip(Tail(s)) ELSE s

RECURSIVE rstrip(_)
rstrip(s) ==
    IF s # <<>> /\ s[Len(s)] \in WhiteSpace
    THEN rstrip(SubSeq(s, 1, Len(s) - 1))
    ELSE s

\* str.strip()
strip(s) == rstrip(lstrip(s))

\* str.startswith('Error')
startswith_Error(s) == Len(s) >= 1 /\ s[1] = "Error"

\* str.split(sep): the pieces between the separators, at least one piece
RECURSIVE split(_, _)
split(s, sep) ==
    IF \E i \in 1..Len(s) : s[i] = sep
    THEN LET i == CHOOSE k \in 1..Len(s) :
                      s[k] = sep /\ \A j \in 1..(k - 1) : s[j] # sep
         IN  <<SubSeq(s, 1, i - 1)>> \o split(SubSeq(s, i + 1, Len(s)), sep)
    ELSE <<s>>

\* sep.join(list)
RECURSIVE join(_, _)
join(l, sep) ==
    IF l = <<>> THEN <<>>
    ELSE IF Len(l) = 1 THEN l[1]
    ELSE l[1] \o sep \o join(Tail(l), sep)

Range(q) == {q[i] : i \in 1..Len(q)}

\* [s.strip() for s in text.split(',') if s.strip()]
ParseSkills(text) ==
    LET parts == split(text, ",")
        stripped == [i \in 1..Len(parts) |-> strip(parts[i])]
    IN  SelectSeq(stripped, LAMBDA p : p # <<>>)

\* ------------------------------------------------------------- ai_loading
\* ai_loading holds None, one of the strings 'summary', 'skills',
\* 'cover-letter', or the id of the entry being refined.
None == [tag |-> "None", s |-> "", n |-> 0]
StrMarker(t) == [tag |-> "str", s |-> t, n |-> 0]
IdMarker(id) == [tag |-> "id", s |-> "", n |-> id]

\* ------------------------------------------------------------- the strings
ErrNoClient ==
    <<"Error", ": Gemini client not initialized. Check API Key configuration.">>
ErrConnect ==
    <<"Error", ": Could not connect to AI service or API key is invalid.">>
ErrUnexpected ==
    <<"Error", ": An unexpected error occurred during AI generation.">>
ErrCoverInputs ==
    <<"Error", ": Please enter both Target Company and Job Title.">>
CoverPlaceholder == <<"Generating professional cover letter draft...">>
\* the value a Python function returns when it falls off its end
PyNone == <<"<None>">>

\* ---------------------------------------------------------------- Document
InitialData ==
    [personal |-> [name |-> <<"Student Name">>,
                   email |-> <<"email@example.com">>,
                   phone |-> <<"123-456-7890">>,
                   linkedin |-> <<"https//linkedin/profile">>],
     summary |-> <<"A highly motivated student ...">>,
     education |-> <<[id |-> 1, institution |-> <<"University/College Name">>,
                      degree |-> <<"B.Tech/B.Sc in Computer Science">>,
                      dates |-> <<"2021 - 2025">>]>>,
     experience |-> <<[id |-> 1, title |-> <<"AI and Cloud Intern">>,
                       company |-> <<"Edunet/IBM SkillsBuild">>,
                       dates |-> <<"June 2024 - Present">>,
                       bullets |-> <<"Successfully completed ...", "\n",
                                     "Gained hands-on experience ...", "\n",
                                     "Applied Python ...">>]>>,
     skills |-> << <<"Python">>, <<"Cloud Computing (IBM/AWS/Azure)">>,
                   <<"Generative AI">>, <<"Data Analysis">>,
                   <<"Web Development (React/JS)">> >>,
     portfolio |-> <<[id |-> 1, name |-> <<"AI Resume Builder Project">>,
                      link |-> <<"https://github.com/my-project">>,
                      description |-> <<"Developed an AI tool ...">>]>>,
     cover_letter_inputs |-> [company |-> <<>>, title |-> <<>>],
     cover_letter_draft |-> <<>>]

\* the fields render_array_section is given for each section (main)
SectionFields(section) ==
    CASE section = "education" -> {"degree", "institution", "dates"}
      [] section = "experience" -> {"title", "company", "dates", "bullets"}
      [] section = "portfolio" -> {"name", "link", "description"}

\* bullet_field of handle_refine_bullets
BulletField(section) ==
    IF section = "experience" THEN "bullets" ELSE "description"

\* ------------------------------------------------- generate_portfolio_html
RECURSIVE Concat(_)
Concat(parts) == IF parts = <<>> THEN <<>> ELSE Head(parts) \o Concat(Tail(parts))

SkillBadge(skill) == <<"<span badge>">> \o skill \o <<"</span>">>

ProjectCard(proj) ==
    <<"<div card><h3>">> \o proj.name \o <<"</h3><p>">> \o proj.description
        \o <<"</p><a href=">> \o proj.link \o <<">View Project</a></div>">>

EducationCard(edu) ==
    <<"<div edu><h3>">> \o edu.degree \o <<"</h3><span>">> \o edu.dates
        \o <<"</span><p>">> \o edu.institution \o <<"</p></div>">>

\* lines 399-487: the f-string
PortfolioHtmlWithExperience(d) ==
    <<"<!DOCTYPE html><title>">>
        \o (IF d.personal.name # <<>> THEN d.personal.name ELSE <<"Student">>)
        \o <<" Projects Portfolio</title><about>">>
        \o d.summary \o <<"</about><skills>">>
        \o Concat([i \in 1..Len(d.skills) |-> SkillBadge(d.skills[i])])
        \o <<"</skills><projects>">>
        \o Concat([i \in 1..Len(d.portfolio) |-> ProjectCard(d.portfolio[i])])
        \o <<"</projects><experience>">>
        \o Concat([i \in 1..Len(d.experience) |-> d.experience[i].bullets])
        \o <<"</experience>">>
PortfolioHtml(d) ==
    <<"<!DOCTYPE html><title>">>
        \o (IF d.personal.name # <<>> THEN d.personal.name ELSE <<"Student">>)
        \o <<" Projects Portfolio</title><h1>">> \o d.personal.name
        \o <<"</h1><a mailto:">> \o d.personal.email \o <<">">> \o d.personal.email
        \o <<"</a><a href=">> \o d.personal.linkedin \o <<">LinkedIn</a><about>">>
        \o d.summary \o <<"</about><skills>">>
        \o Concat([i \in 1..Len(d.skills) |-> SkillBadge(d.skills[i])])
        \o <<"</skills><projects>">>
        \o Concat([i \in 1..Len(d.portfolio) |-> ProjectCard(d.portfolio[i])])
        \o <<"</projects><education>">>
        \o Concat([i \in 1..Len(d.education) |-> EducationCard(d.education[i])])
        \o <<"</education><footer>(c) 2025 ">> \o d.personal.name
        \o <<". Built with Insta Repo.</footer>">>


\* ------------------------------------------------------------------- state
\* the sections render_array_section is called for, and the ids of a section
Sections == {"education", "experience", "portfolio"}
ids(entries) == {entries[i].id : i \in 1..Len(entries)}

VARIABLES
    client,          \* module-level client: "Client" or "None"
    data,            \* st.session_state.data, the Document
    ai_loading,      \* st.session_state.ai_loading
    generated_html,  \* st.session_state.generated_html
    pc,              \* "idle": the page waits for the user; "try": top of the
                     \* retry loop; "merge": generate_content_with_ai has
                     \* returned into its handler; "returned": the handler has
                     \* returned; "run": a script run is due (the first
                     \* one, or st.rerun() was raised)
    handler,         \* the handler being executed and its arguments
    attempt,         \* loop variable of generate_content_with_ai
    result,          \* return value of generate_content_with_ai
    calls,           \* client.models.generate_content calls of this call
    announced,       \* seconds named by st.warning, in order
    slept,           \* arguments of time.sleep, in order
    nRate,           \* failures of this call that line 96 found to hold '429'
    last,            \* what the last service attempt did: kind "text" (a
                     \* response, with its text), "api" (APIError; rate
                     \* tells whether line 96 found '429' in it), "exc"
    data0,           \* the Document when the handler was entered
    marker0,         \* ai_loading when the handler was entered
    enabled,         \* generation buttons the page shows enabled
    ops,             \* widget events so far
    now,             \* time.time(); it has advanced when the next run starts
    removed          \* per section, the ids of the entries popped so far

vars == <<client, data, ai_loading, generated_html, pc, handler, attempt,
          result, calls, announced, slept, nRate, last, data0, marker0,
          enabled, ops, now, removed>>

callVars == <<attempt, result, calls, announced, slept, nRate, last>>
pageVars == <<generated_html, enabled, ops, now, removed>>

NoHandler == [use |-> "none", section |-> "", id |-> 0]
NoOutcome == [kind |-> "none", text |-> <<>>, rate |-> FALSE]

\* ----------------------------------------------------- get_gemini_client
\* what st.secrets holds under "GEMINI_KEY": no such entry, '' or a key
Secrets == {"<missing>", "", "key"}

get_gemini_client(secret) ==
    IF secret = "<missing>" THEN "None"      \* KeyError -> except -> None
    ELSE IF secret = "" THEN "None"          \* if not GEMINI_KEY
    ELSE "Client"

\* ---------------------------------------------------- the Gemini service
\* response.text of a call that did not raise
ResponseTexts ==
    { <<" ", "Refined text", "\n">>,
      <<"Error", " handling is one of my strengths">>,
      <<"Kubernetes", ",", " ", "Python", ",", ",", " ", "Kubernetes">> }

\* google.genai.errors.APIError: the status code, the status and the message
APIErrors ==
    { [code |-> "429", status |-> "RESOURCE_EXHAUSTED", details |-> <<"quota">>],
      [code |-> "500", status |-> "INTERNAL", details |-> <<"server error">>],
      [code |-> "403", status |-> "PERMISSION_DENIED", details |-> <<"bad key">>],
      [code |-> "400", status |-> "INVALID_ARGUMENT",
       details |-> <<"limit of ", "429", " tokens exceeded">>] }

\* str(e) of an APIError
str_APIError(e) == <<e.code, " ", e.status, ". ">> \o e.details

\* '429' in str(e)
Has429(s) == \E i \in 1..Len(s) : s[i] = "429"

\* ----------------------------------------------- generate_content_with_ai
\* if not client
NotClientAlwaysFalse(c) == FALSE
NotClient(c) == c = "None"

\* '429' in str(e) and attempt < MAX_RETRIES - 1
ShouldRetryAnyError(e, k) == k < MAX_RETRIES - 1
ShouldRetryOffByOne(e, k) == Has429(str_APIError(e)) /\ k < MAX_RETRIES
ShouldRetry(e, k) == Has429(str_APIError(e)) /\ k < MAX_RETRIES - 1

\* the seconds st.warning names
AnnouncedSeconds(k) == 2 ^ k

\* the argument of time.sleep
SleepSecondsNoPlusOne(k) == 2 ^ k
SleepSeconds(k) == 2 ^ k + 1

\* lines 80-83: the client test and the entry into the loop
EnterGenerate ==
    /\ attempt' = 0
    /\ calls' = 0
    /\ announced' = <<>>
    /\ slept' = <<>>
    /\ nRate' = 0
    /\ last' = NoOutcome
    /\ IF NotClient(client)
       THEN result' = ErrNoClient /\ pc' = "merge"
       ELSE result' = <<>> /\ pc' = "try"

\* lines 84-93: the call returns and response.text is a string
AttemptSuccess ==
    /\ pc = "try"
    /\ \E t \in ResponseTexts :
          /\ result' = strip(t)
          /\ last' = [kind |-> "text", text |-> t, rate |-> FALSE]
    /\ calls' = calls + 1
    /\ pc' = "merge"
    /\ UNCHANGED <<client, data, ai_loading, handler, attempt, announced,
                   slept, nRate, data0, marker0, pageVars>>

\* lines 95-102: the call raises APIError
AttemptAPIError ==
    /\ pc = "try"
    /\ calls' = calls + 1
    /\ \E e \in APIErrors :
          /\ last' = [kind |-> "api", text |-> <<>>,
                      rate |-> Has429(str_APIError(e))]
          /\ nRate' = IF Has429(str_APIError(e)) THEN nRate + 1 ELSE nRate
          /\ IF ShouldRetry(e, attempt)
             THEN /\ announced' = Append(announced, AnnouncedSeconds(attempt))
                  /\ slept' = Append(slept, SleepSeconds(attempt))
                  /\ attempt' = attempt + 1
                  /\ IF attempt + 1 < MAX_RETRIES
                     THEN pc' = "try" /\ UNCHANGED result
                     ELSE pc' = "merge" /\ result' = PyNone
                  /\ UNCHANGED ai_loading
             ELSE /\ ai_loading' = None
                  /\ result' = ErrConnect
                  /\ pc' = "merge"
                  /\ UNCHANGED <<announced, slept, attempt>>
    /\ UNCHANGED <<client, data, handler, data0, marker0, pageVars>>

\* lines 103-106: the try block raises anything else: the transport fails, or
\* response.text is None and .strip() raises AttributeError
AttemptOtherException ==
    /\ pc = "try"
    /\ calls' = calls + 1
    /\ last' = [kind |-> "exc", text |-> <<>>, rate |-> FALSE]
    /\ ai_loading' = None
    /\ result' = ErrUnexpected
    /\ pc' = "merge"
    /\ UNCHANGED <<client, data, handler, attempt, announced, slept, nRate,
                   data0, marker0, pageVars>>

\* lines 395-490: generate_portfolio_html reads the Document and stores the
\* markup in the session state
generate_portfolio_html == generated_html' = PortfolioHtml(data)

\* ------------------------------------------------------------ AI handlers
\* the values the handlers store in ai_loading on entry
SummaryMarkerUnset == None
SummaryMarker == StrMarker("summary")
SkillsMarker == StrMarker("skills")
CoverMarker == StrMarker("cover-letter")

\* next((e for e in data[section] if e['id'] == id), None): index, 0 for None
FindItem(d, section, id) ==
    IF \E i \in 1..Len(d[section]) : d[section][i].id = id
    THEN CHOOSE i \in 1..Len(d[section]) :
            /\ d[section][i].id = id
            /\ \A j \in 1..(i - 1) : d[section][j].id # id
    ELSE 0

\* if not item or not item[bullet_field]
NothingToRefineOnlyMissing(d, section, id) == FindItem(d, section, id) = 0
NothingToRefine(d, section, id) ==
    \/ FindItem(d, section, id) = 0
    \/ d[section][FindItem(d, section, id)][BulletField(section)] = <<>>

\* if not inputs['company'] or not inputs['title']
CoverInputsMissingBoth(inputs) == inputs.company = <<>> /\ inputs.title = <<>>
CoverInputsMissing(inputs) == inputs.company = <<>> \/ inputs.title = <<>>

\* [{**e, field: result} if e['id'] == id else e for e in data[section]]
ReplaceFieldOfAll(entries, id, field, value) ==
    [i \in 1..Len(entries) |-> [entries[i] EXCEPT ![field] = value]]
ReplaceField(entries, id, field, value) ==
    [i \in 1..Len(entries) |->
        IF entries[i].id = id
        THEN [entries[i] EXCEPT ![field] = value]
        ELSE entries[i]]

\* list(set(a) | set(b)): CPython leaves the order of a set open.  The model
\* lets the list be any of the first MaxOrders rotations of one enumeration.
MaxOrders == 2

RECURSIVE Enumerate(_)
Enumerate(S) ==
    IF S = {} THEN <<>>
    ELSE LET x == CHOOSE y \in S : TRUE IN <<x>> \o Enumerate(S \ {x})

Rotate(q, k) == [i \in 1..Len(q) |-> q[((i + k - 1) % Len(q)) + 1]]

list_of_set(S) ==
    IF S = {} THEN {<<>>}
    ELSE {Rotate(Enumerate(S), k) :
            k \in 0..((IF Cardinality(S) < MaxOrders
                       THEN Cardinality(S) ELSE MaxOrders) - 1)}

\* a handler is entered: the history of the call starts here
Enter(h) ==
    /\ handler' = h
    /\ data0' = data
    /\ marker0' = ai_loading

\* a handler returns before it reaches generate_content_with_ai
ReturnEarly ==
    /\ pc' = "returned"
    /\ attempt' = 0
    /\ calls' = 0
    /\ announced' = <<>>
    /\ slept' = <<>>
    /\ nRate' = 0
    /\ last' = NoOutcome
    /\ result' = <<>>

\* lines 110-121
handle_generate_summary ==
    /\ Enter([use |-> "summary", section |-> "", id |-> 0])
    /\ ai_loading' = SummaryMarker
    /\ data' = data
    /\ EnterGenerate

\* lines 122-123
handle_generate_summary_merge ==
    /\ pc = "merge"
    /\ handler.use = "summary"
    /\ data' = [data EXCEPT !.summary = result]
    /\ ai_loading' = None
    /\ pc' = "returned"
    /\ UNCHANGED <<client, handler, callVars, data0, marker0, pageVars>>

\* lines 125-133
handle_suggest_skills ==
    /\ Enter([use |-> "skills", section |-> "", id |-> 0])
    /\ ai_loading' = SkillsMarker
    /\ data' = data
    /\ EnterGenerate

\* lines 135-141; result.startswith raises when result is None
handle_suggest_skills_merge ==
    /\ pc = "merge"
    /\ handler.use = "skills"
    /\ IF result = PyNone
       THEN UNCHANGED <<data, ai_loading>>
       ELSE /\ ai_loading' = None
            /\ IF ~startswith_Error(result)
               THEN \E merged_skills \in
                        list_of_set(Range(data.skills) \cup Range(ParseSkills(result))) :
                        data' = [data EXCEPT !.skills = merged_skills]
               ELSE UNCHANGED data
    /\ pc' = "returned"
    /\ UNCHANGED <<client, handler, callVars, data0, marker0, pageVars>>

\* lines 143-168
handle_refine_bullets(id, section) ==
    /\ Enter([use |-> "refine", section |-> section, id |-> id])
    /\ data' = data
    /\ IF NothingToRefine(data, section, id)
       THEN ai_loading' = None /\ ReturnEarly
       ELSE ai_loading' = IdMarker(id) /\ EnterGenerate

\* lines 170-182
handle_refine_bullets_merge ==
    /\ pc = "merge"
    /\ handler.use = "refine"
    /\ IF result = PyNone
       THEN UNCHANGED <<data, ai_loading>>
       ELSE /\ ai_loading' = None
            /\ IF ~startswith_Error(result)
               THEN data' = [data EXCEPT ![handler.section] =
                                ReplaceField(@, handler.id,
                                             BulletField(handler.section), result)]
               ELSE UNCHANGED data
    /\ pc' = "returned"
    /\ UNCHANGED <<client, handler, callVars, data0, marker0, pageVars>>

\* lines 185-213
handle_generate_cover_letter ==
    /\ Enter([use |-> "cover", section |-> "", id |-> 0])
    /\ IF CoverInputsMissing(data.cover_letter_inputs)
       THEN /\ data' = [data EXCEPT !.cover_letter_draft = ErrCoverInputs]
            /\ ai_loading' = None
            /\ ReturnEarly
       ELSE /\ data' = [data EXCEPT !.cover_letter_draft = CoverPlaceholder]
            /\ ai_loading' = CoverMarker
            /\ EnterGenerate

\* lines 215-218
handle_generate_cover_letter_merge ==
    /\ pc = "merge"
    /\ handler.use = "cover"
    /\ IF result = PyNone
       THEN UNCHANGED <<data, ai_loading>>
       ELSE /\ ai_loading' = None
            /\ IF ~startswith_Error(result)
               THEN data' = [data EXCEPT !.cover_letter_draft = result]
               ELSE UNCHANGED data
    /\ pc' = "returned"
    /\ UNCHANGED <<client, handler, callVars, data0, marker0, pageVars>>

\* the steps every specification shares
HandlerStep ==
    \/ AttemptSuccess
    \/ AttemptAPIError
    \/ AttemptOtherException
    \/ handle_generate_summary_merge
    \/ handle_suggest_skills_merge
    \/ handle_refine_bullets_merge
    \/ handle_generate_cover_letter_merge

\* --------------------------------------------- the handlers called directly
\* Documents the handlers are called on
Exp(id, bullets) ==
    [id |-> id, title |-> <<"Intern">>, company |-> <<"IBM">>,
     dates |-> <<"2024">>, bullets |-> bullets]
Proj(id, description) ==
    [id |-> id, name |-> <<"Builder">>, link |-> <<"https://x">>,
     description |-> description]

CallDocuments ==
    { [InitialData EXCEPT !.skills = sk, !.experience = ex, !.portfolio = po,
                          !.cover_letter_inputs = [company |-> co, title |-> ti],
                          !.cover_letter_draft = dr] :
        sk \in { <<>>, << <<"Python">>, <<"SQL">> >> },
        ex \in { <<>>, <<Exp(1, <<"did things">>)>>,
                 <<Exp(1, <<>>), Exp(2, <<"did", "\n", "more">>)>> },
        po \in { <<>>, <<Proj(1, <<"a tool">>)>>,
                 <<Proj(1, <<"a tool">>), Proj(2, <<>>)>> },
        co \in { <<>>, <<"Acme">> },
        ti \in { <<>>, <<"Engineer">> },
        dr \in { <<>>, <<"an earlier draft">> } }

CallIds == {1, 2, 3}

InitCall ==
    /\ \E secret \in Secrets : client = get_gemini_client(secret)
    /\ data \in CallDocuments
    /\ ai_loading = None
    /\ generated_html = <<>>
    /\ pc = "idle"
    /\ handler = NoHandler
    /\ attempt = 0
    /\ result = <<>>
    /\ calls = 0
    /\ announced = <<>>
    /\ slept = <<>>
    /\ nRate = 0
    /\ last = NoOutcome
    /\ data0 = data
    /\ marker0 = None
    /\ enabled = {}
    /\ ops = 0
    /\ now = 0
    /\ removed = [section \in Sections |-> {}]

CallSummary ==
    /\ pc = "idle"
    /\ handle_generate_summary
    /\ UNCHANGED <<client, pageVars>>

CallSkills ==
    /\ pc = "idle"
    /\ handle_suggest_skills
    /\ UNCHANGED <<client, pageVars>>

CallRefine ==
    /\ pc = "idle"
    /\ \E id \in CallIds, section \in {"experience", "portfolio"} :
          handle_refine_bullets(id, section)
    /\ UNCHANGED <<client, pageVars>>

CallCoverLetter ==
    /\ pc = "idle"
    /\ handle_generate_cover_letter
    /\ UNCHANGED <<client, pageVars>>

CallPortfolioHtml ==
    /\ pc = "idle"
    /\ Enter([use |-> "portfolio", section |-> "", id |-> 0])
    /\ generate_portfolio_html
    /\ ReturnEarly
    /\ UNCHANGED <<client, data, ai_loading, enabled, ops, now, removed>>

NextCall ==
    \/ CallPortfolioHtml
    \/ CallSummary
    \/ CallSkills
    \/ CallRefine
    \/ CallCoverLetter
    \/ HandlerStep

CallSpec == InitCall /\ [][NextCall]_vars


\* ------------------------------------------------------ the Streamlit page
\* One script run follows one widget event.  A widget whose event it is not
\* returns the value the Document holds.  ev.kind is "none" (a rerun), the
\* name of the edited widget group, or the clicked button.
Event(kind, section, id, field, value) ==
    [kind |-> kind, section |-> section, id |-> id, field |-> field,
     value |-> value]
NoEvent == Event("none", "", 0, "", <<>>)

Button(name, section, id) == [name |-> name, section |-> section, id |-> id]

\* the state a script run carries from one widget to the next
RunState(d, marker) ==
    [data |-> d, ai_loading |-> marker, enabled |-> {}, stop |-> FALSE]

\* is_disabled = st.session_state.ai_loading is not None
is_disabled_never(marker) == FALSE
is_disabled(marker) == marker # None

\* st.button(..., disabled=is_disabled)
ShowButton(rs, b) ==
    IF is_disabled(rs.ai_loading) THEN rs
    ELSE [rs EXCEPT !.enabled = @ \cup {b}]

\* lines 222-229
render_personal_details(rs, ev) ==
    IF ev.kind = "personal"
    THEN [rs EXCEPT !.data.personal[ev.field] = ev.value]
    ELSE rs

\* lines 231-252
render_summary_generator(rs, ev) ==
    ShowButton(IF ev.kind = "summary"
               THEN [rs EXCEPT !.data.summary = ev.value]
               ELSE rs,
               Button("summary", "", 0))

\* lines 254-275
render_skills_form(rs, ev) ==
    LET shown == join(rs.data.skills, <<",", " ">>)
        skills_input == IF ev.kind = "skills" THEN ev.value ELSE shown
    IN  ShowButton(IF skills_input # shown
                   THEN [rs EXCEPT !.data.skills = ParseSkills(skills_input)]
                   ELSE rs,
                   Button("skills", "", 0))

\* list.pop(i)
pop(q, i) == SubSeq(q, 1, i - 1) \o SubSeq(q, i + 1, Len(q))

\* lines 281-328: the body of the loop over the entries, for entry i
RenderItem(rs, ev, section, handle_refine, i) ==
    LET id == rs.data[section][i].id
        mine == ev.section = section /\ ev.id = id
        r1 == IF ev.kind = "entry" /\ mine
              THEN [rs EXCEPT !.data[section][i][ev.field] = ev.value]
              ELSE rs
        r2 == IF handle_refine /\ section \in {"experience", "portfolio"}
              THEN LET shown == ShowButton(r1, Button("refine", section, id))
                   IN  IF ev.kind = "refine" /\ mine
                       THEN [shown EXCEPT !.ai_loading = IdMarker(id)]
                       ELSE shown
              ELSE r1
    IN  IF ev.kind = "remove" /\ mine
        THEN [r2 EXCEPT !.data[section] = pop(@, i), !.stop = TRUE]
        ELSE r2

RECURSIVE RenderItems(_, _, _, _, _)
RenderItems(rs, ev, section, handle_refine, i) ==
    IF rs.stop \/ i > Len(rs.data[section]) THEN rs
    ELSE CHOOSE out \in
            {RenderItems(r, ev, section, handle_refine, i + 1) :
                r \in {RenderItem(rs, ev, section, handle_refine, i)}} : TRUE

\* lines 331-333
new_item_first_id(section, t) ==
    [f \in SectionFields(section) \cup {"id"} |-> IF f = "id" THEN 1 ELSE <<>>]
new_item(section, t) ==
    [f \in SectionFields(section) \cup {"id"} |-> IF f = "id" THEN t ELSE <<>>]

\* lines 277-335
render_array_section(rs, ev, section, handle_refine, t) ==
    CHOOSE out \in
        {IF ~r.stop /\ ev.kind = "add" /\ ev.section = section
         THEN [r EXCEPT !.data[section] = Append(@, new_item(section, t)),
                        !.stop = TRUE]
         ELSE r :
            r \in {RenderItems(rs, ev, section, handle_refine, 1)}} : TRUE

\* lines 493-513
render_cover_letter_generator(rs, ev) ==
    ShowButton(IF ev.kind = "cover_input"
               THEN [rs EXCEPT !.data.cover_letter_inputs[ev.field] = ev.value]
               ELSE rs,
               Button("cover", "", 0))

\* a section of the page is rendered unless st.rerun() has ended the run
Education(rs, ev, t) ==
    IF rs.stop THEN rs ELSE render_array_section(rs, ev, "education", FALSE, t)
Experience(rs, ev, t) ==
    IF rs.stop THEN rs ELSE render_array_section(rs, ev, "experience", TRUE, t)
Projects(rs, ev, t) ==
    IF rs.stop THEN rs ELSE render_array_section(rs, ev, "portfolio", TRUE, t)
CoverLetter(rs, ev) ==
    IF rs.stop THEN rs ELSE render_cover_letter_generator(rs, ev)

\* lines 631-749: one script run.  r1..r7 are the session state after each
\* part of the input tab; the run ends at st.rerun() or at the end of main.
main(ev) ==
    \E r1 \in {render_personal_details(RunState(data, ai_loading), ev)} :
    \E r2 \in {render_summary_generator(r1, ev)} :
    \E r3 \in {render_skills_form(r2, ev)} :
    \E r4 \in {Education(r3, ev, now)} :
    \E r5 \in {Experience(r4, ev, now)} :
    \E r6 \in {Projects(r5, ev, now)} :
    \E rs \in {CoverLetter(r6, ev)} :
        /\ generate_portfolio_html
        /\ data' = rs.data
        /\ ai_loading' = rs.ai_loading
        /\ IF rs.stop
           THEN pc' = "run" /\ enabled' = enabled
           ELSE pc' = "idle" /\ enabled' = rs.enabled
        /\ now' = now + 1
        /\ removed' = [section \in Sections |->
                          removed[section] \cup
                             (ids(data[section]) \ ids(rs.data[section]))]
        /\ handler' = NoHandler
        /\ attempt' = 0
        /\ result' = <<>>
        /\ calls' = 0
        /\ announced' = <<>>
        /\ slept' = <<>>
        /\ nRate' = 0
        /\ last' = NoOutcome
        /\ data0' = rs.data
        /\ marker0' = None
        /\ UNCHANGED client

\* what the user leaves in a text widget: a widget that shows text is
\* cleared, an empty one is filled
EditTexts == { <<>>, <<"typed">> }
Retyped(old, new) == new # old /\ (old = <<>> \/ new = <<>>)
\* what the user types into the skills text area
SkillsTexts ==
    { <<"Python", ",", " ", "Python", ",", "Python">>, <<",", " ", "Go", ",">> }

\* the user acts on the page
UserActs == pc = "idle" /\ ops < MaxOps /\ ops' = ops + 1

EditPersonal ==
    /\ UserActs
    /\ \E f \in {"name", "email", "phone", "linkedin"}, v \in EditTexts :
          /\ Retyped(data.personal[f], v)
          /\ main(Event("personal", "", 0, f, v))

EditSummary ==
    /\ UserActs
    /\ \E v \in EditTexts :
          /\ Retyped(data.summary, v)
          /\ main(Event("summary", "", 0, "", v))

EditSkills ==
    /\ UserActs
    /\ \E v \in SkillsTexts :
          /\ v # join(data.skills, <<",", " ">>)
          /\ main(Event("skills", "", 0, "", v))

EditEntry ==
    /\ UserActs
    /\ \E section \in {"education", "experience", "portfolio"} :
          \E i \in 1..Len(data[section]), v \in EditTexts :
             \E f \in SectionFields(section) :
                /\ Retyped(data[section][i][f], v)
                /\ main(Event("entry", section, data[section][i].id, f, v))

EditCoverInput ==
    /\ UserActs
    /\ \E f \in {"company", "title"}, v \in EditTexts :
          /\ Retyped(data.cover_letter_inputs[f], v)
          /\ main(Event("cover_input", "", 0, f, v))

ClickRemove ==
    /\ UserActs
    /\ \E section \in {"education", "experience", "portfolio"} :
          \E i \in 1..Len(data[section]) :
             main(Event("remove", section, data[section][i].id, "", <<>>))

ClickAdd ==
    /\ UserActs
    /\ \E section \in {"education", "experience", "portfolio"} :
          /\ Len(data[section]) < MaxEntries
          /\ main(Event("add", section, 0, "", <<>>))

\* a click on a button with on_click: the callback runs before the script
ClickGenerateSummary ==
    /\ UserActs
    /\ Button("summary", "", 0) \in enabled
    /\ handle_generate_summary
    /\ UNCHANGED <<client, generated_html, enabled, now, removed>>

ClickSuggestSkills ==
    /\ UserActs
    /\ Button("skills", "", 0) \in enabled
    /\ handle_suggest_skills
    /\ UNCHANGED <<client, generated_html, enabled, now, removed>>

ClickRefine ==
    /\ UserActs
    /\ \E b \in enabled :
          /\ b.name = "refine"
          /\ handle_refine_bullets(b.id, b.section)
    /\ UNCHANGED <<client, generated_html, enabled, now, removed>>

ClickGenerateCoverLetter ==
    /\ UserActs
    /\ Button("cover", "", 0) \in enabled
    /\ handle_generate_cover_letter
    /\ UNCHANGED <<client, generated_html, enabled, now, removed>>

\* the script run that follows the callback: st.button returns True for the
\* clicked button
RunAfterCallback ==
    /\ pc = "returned"
    /\ main(Event(IF handler.use = "refine" THEN "refine" ELSE "clicked",
                  handler.section, handler.id, "", <<>>))
    /\ UNCHANGED ops

\* the first script run of the session, and the run st.rerun() asks for
Rerun ==
    /\ pc = "run"
    /\ main(NoEvent)
    /\ UNCHANGED ops

\* lines 26-50 and 75: the session state is set up, main has not run yet
Init ==
    /\ \E secret \in Secrets : client = get_gemini_client(secret)
    /\ data = InitialData
    /\ ai_loading = None
    /\ generated_html = <<>>
    /\ enabled = {}
    /\ pc = "run"
    /\ handler = NoHandler
    /\ attempt = 0
    /\ result = <<>>
    /\ calls = 0
    /\ announced = <<>>
    /\ slept = <<>>
    /\ nRate = 0
    /\ last = NoOutcome
    /\ data0 = InitialData
    /\ marker0 = None
    /\ ops = 0
    /\ now = 2
    /\ removed = [section \in Sections |-> {}]

Next ==
    \/ EditPersonal
    \/ EditSummary
    \/ EditSkills
    \/ EditEntry
    \/ EditCoverInput
    \/ ClickRemove
    \/ ClickAdd
    \/ ClickGenerateSummary
    \/ ClickSuggestSkills
    \/ ClickRefine
    \/ ClickGenerateCoverLetter
    \/ RunAfterCallback
    \/ Rerun
    \/ HandlerStep

Spec == Init /\ [][Next]_vars


\* ================================================================= claims
\* a failure of the last attempt that line 96 does not take for a rate limit
OtherFailure ==
    \/ last.kind = "exc"
    \/ last.kind = "api" /\ ~last.rate

\* C1: with a client, N < 5 rate-limit failures followed by a response make
\* N + 1 service attempts and return the stripped response text; five
\* rate-limit failures make exactly 5 attempts and return an error string;
\* there is never a 6th attempt.
C1_RetryBound ==
    /\ calls <= MAX_RETRIES
    /\ (pc = "try" => calls < MAX_RETRIES)
    /\ (pc = "merge" /\ client = "Client") =>
          /\ (last.kind = "text" =>
                /\ nRate < MAX_RETRIES
                /\ calls = nRate + 1
                /\ result = strip(last.text))
          /\ (nRate >= MAX_RETRIES =>
                /\ calls = MAX_RETRIES
                /\ result = ErrConnect
                /\ startswith_Error(result))

\* five rate-limit failures in a row have ended the call
C1_Witness ==
    /\ pc = "merge"
    /\ nRate = MAX_RETRIES
    /\ calls = MAX_RETRIES
    /\ result = ErrConnect

\* C2: only a failure taken for a rate limit is retried: after any other
\* failure the call has ended with an error string, that attempt was the last
\* one and no wait followed it; every wait and every attempt after the first
\* follows a rate-limit failure.
C2_OnlyRateLimitRetried ==
    /\ Len(slept) <= nRate
    /\ calls <= nRate + 1
    /\ OtherFailure =>
          /\ pc \in {"merge", "returned"}
          /\ startswith_Error(result)
          /\ calls = nRate + 1
          /\ Len(slept) = nRate
          /\ Len(announced) = nRate

\* the third attempt failed with an API error that is no rate limit
C2_Witness ==
    /\ pc = "merge"
    /\ last.kind = "api"
    /\ ~last.rate
    /\ nRate = 2
    /\ calls = 3

\* C3: when generate_content_with_ai returned an error string, the Document
\* after the handler equals the Document before it.
C3_ErrorLeavesDocument ==
    (pc = "returned" /\ startswith_Error(result)) => data = data0

\* C4: the marker is not None whenever a service request is about to be made,
\* and it is None whenever a handler has returned.
C4_MarkerSetAndCleared ==
    /\ (pc = "try" => ai_loading # None)
    /\ (pc = "returned" => ai_loading = None)

\* the cover-letter handler has returned after exhausting the retries
C4_Witness ==
    /\ pc = "returned"
    /\ handler.use = "cover"
    /\ calls = MAX_RETRIES
    /\ nRate = MAX_RETRIES
    /\ ai_loading = None

\* C5: a handler is entered only when ai_loading is None.
C5_StartedOnlyWhenIdle ==
    (handler.use # "none" /\ pc \in {"try", "merge", "returned"}) => marker0 = None

\* C6: without a client every call returns the configuration error with no
\* service attempt and no wait.
C6_NoClientNoAttempt ==
    client = "None" =>
        /\ calls = 0
        /\ slept = <<>>
        /\ announced = <<>>
        /\ pc # "try"
        /\ (pc = "merge" => result = ErrNoClient)

\* a refinement of an entry with text was asked for without a client
C6_Witness ==
    /\ client = "None"
    /\ pc = "merge"
    /\ handler.use = "refine"
    /\ result = ErrNoClient

\* C7: the k-th wait (k from 0) lasts 2^k + 1, one wait follows each
\* rate-limited attempt but the 5th, which none follows.
C7_BackoffSchedule ==
    /\ \A i \in 1..Len(slept) : slept[i] = 2 ^ (i - 1) + 1
    /\ Len(slept) = (IF nRate < MAX_RETRIES THEN nRate ELSE MAX_RETRIES - 1)
    /\ (calls = MAX_RETRIES => Len(slept) = MAX_RETRIES - 1)

\* four waits, then the 5th attempt was made
C7_Witness ==
    /\ slept = <<2, 3, 5, 9>>
    /\ calls = MAX_RETRIES
    /\ pc = "merge"

\* C8: the waits are 1, 2, 4, 8 and each equals the wait announced before it.
C8_WaitsDoubleFromOne ==
    /\ Len(announced) = Len(slept)
    /\ \A i \in 1..Len(slept) :
          /\ slept[i] = 2 ^ (i - 1)
          /\ announced[i] = slept[i]

\* C9: the cover-letter handler called with an empty company or an empty
\* title makes no service attempt, stores the validation message in
\* cover_letter_draft, changes nothing else and returns with the marker None.
C9_CoverValidation ==
    (/\ handler.use = "cover"
     /\ \/ data0.cover_letter_inputs.company = <<>>
        \/ data0.cover_letter_inputs.title = <<>>) =>
        /\ pc = "returned"
        /\ calls = 0
        /\ data = [data0 EXCEPT !.cover_letter_draft = ErrCoverInputs]
        /\ ai_loading = None

\* only the company is empty and an earlier draft is replaced
C9_Witness ==
    /\ pc = "returned"
    /\ handler.use = "cover"
    /\ data0.cover_letter_inputs.company = <<>>
    /\ data0.cover_letter_inputs.title # <<>>
    /\ data0.cover_letter_draft = <<"an earlier draft">>
    /\ data.cover_letter_draft = ErrCoverInputs

\* C10: handle_refine_bullets called for an id no entry of the section has,
\* or for an entry whose raw text is empty, makes no service attempt, leaves
\* the Document as it was and returns with the marker None.
C10_NothingToRefine ==
    (/\ handler.use = "refine"
     /\ \A i \in 1..Len(data0[handler.section]) :
           data0[handler.section][i].id = handler.id =>
              data0[handler.section][i][BulletField(handler.section)] = <<>>) =>
        /\ pc = "returned"
        /\ calls = 0
        /\ data = data0
        /\ ai_loading = None

\* the id matches none of the two entries of the section
C10_Witness ==
    /\ pc = "returned"
    /\ handler.use = "refine"
    /\ handler.id = 3
    /\ Len(data0[handler.section]) = 2
    /\ data = data0

\* C11: when the service returned a text that is not marked as an error,
\* handle_refine_bullets(id, section) leaves the Document as it was at entry
\* except for the bullets / description of the one entry of the section whose
\* id is the given id, which holds the result: the section keeps its length
\* and order, every other entry and every other field of that entry is the
\* same, and so is every other part of the Document.
C11_RefineFrame ==
    (/\ pc = "returned"
     /\ handler.use = "refine"
     /\ last.kind = "text"
     /\ ~startswith_Error(result)) =>
        /\ Cardinality({i \in 1..Len(data0[handler.section]) :
                           data0[handler.section][i].id = handler.id}) = 1
        /\ Len(data[handler.section]) = Len(data0[handler.section])
        /\ \A i \in 1..Len(data0[handler.section]) :
              /\ DOMAIN data[handler.section][i] = DOMAIN data0[handler.section][i]
              /\ \A f \in DOMAIN data0[handler.section][i] :
                    IF /\ data0[handler.section][i].id = handler.id
                       /\ f = (IF handler.section = "experience"
                               THEN "bullets" ELSE "description")
                    THEN data[handler.section][i][f] = result
                    ELSE data[handler.section][i][f] = data0[handler.section][i][f]
        /\ \A k \in DOMAIN data0 \ {handler.section} : data[k] = data0[k]

\* the second of two experience entries was refined, the first kept its
\* (empty) bullets
C11_Witness ==
    /\ pc = "returned"
    /\ handler.use = "refine"
    /\ handler.section = "experience"
    /\ handler.id = 2
    /\ last.kind = "text"
    /\ Len(data0.experience) = 2
    /\ data.experience[2].bullets = <<"Refined text">>
    /\ data.experience[1].bullets = <<>>
    /\ data0.experience[2].bullets # <<"Refined text">>

\* C12: after handle_suggest_skills got a result R that is not marked as an
\* error, the skills are exactly the skills the Document had at entry together
\* with the comma-separated, trimmed, non-empty tokens of R, no skill occurs
\* twice, none is empty, and there are at least as many skills as at entry.
C12_SkillsMerge ==
    (/\ pc = "returned"
     /\ handler.use = "skills"
     /\ last.kind = "text"
     /\ ~startswith_Error(result)) =>
        /\ Range(data.skills) = Range(data0.skills) \cup Range(ParseSkills(result))
        /\ \A i, j \in 1..Len(data.skills) : data.skills[i] = data.skills[j] => i = j
        /\ \A i \in 1..Len(data.skills) : data.skills[i] # <<>>
        /\ Len(data.skills) >= Len(data0.skills)

\* C13: in every state of a session, whatever was typed into the skills text
\* area and whatever suggestions were merged, no skill of the Document occurs
\* twice (compared case-sensitively) and no skill is the empty string.
C13_SkillsNoDuplicates ==
    /\ \A i, j \in 1..Len(data.skills) : data.skills[i] = data.skills[j] => i = j
    /\ \A i \in 1..Len(data.skills) : data.skills[i] # <<>>

\* the ids of the entries of a section are pairwise distinct
C14_DistinctIds ==
    \A section \in Sections :
       \A i, j \in 1..Len(data[section]) :
          data[section][i].id = data[section][j].id => i = j

\* a step keeps the ids of a section in place, or drops one entry, or adds
\* one entry at the end; an id that comes into the section was never removed
\* from it
C14_IdsKept ==
    \A section \in Sections :
       LET before == [i \in 1..Len(data[section]) |-> data[section][i].id]
           after == [i \in 1..Len(data'[section]) |-> data'[section][i].id]
       IN  /\ \/ after = before
              \/ \E i \in 1..Len(before) :
                    after = SubSeq(before, 1, i - 1) \o
                            SubSeq(before, i + 1, Len(before))
              \/ /\ Len(after) = Len(before) + 1
                 /\ SubSeq(after, 1, Len(before)) = before
           /\ \A i \in 1..Len(after) :
                 (\A j \in 1..Len(before) : before[j] # after[i]) =>
                    after[i] \notin removed[section]

C15_OfferedHtmlCurrent ==
    pc = "idle" => generated_html = PortfolioHtml(data)

\* C16: generate_portfolio_html leaves the Document as it found it, and the
\* markup it stores is the markup of every Document that differs from this one
\* only in experience, cover_letter_inputs or cover_letter_draft.
C16_IgnoresExperienceAndCover ==
    (pc = "returned" /\ handler.use = "portfolio") =>
        /\ data = data0
        /\ \A d \in CallDocuments :
              (\A k \in DOMAIN data \ {"experience", "cover_letter_inputs",
                                        "cover_letter_draft"} : d[k] = data[k])
                 => PortfolioHtml(d) = generated_html

\* the markup was built for a Document with two experience entries and a
\* cover letter draft; a Document without them, the same otherwise, and one
\* with other projects exist
C16_Witness ==
    /\ pc = "returned"
    /\ handler.use = "portfolio"
    /\ Len(data.experience) = 2
    /\ data.cover_letter_draft # <<>>
    /\ data.cover_letter_inputs.company # <<>>
    /\ \E d \in CallDocuments :
          /\ d.experience = <<>>
          /\ d.cover_letter_draft = <<>>
          /\ d.cover_letter_inputs.company = <<>>
          /\ d.skills = data.skills
          /\ d.portfolio = data.portfolio
          /\ PortfolioHtml(d) = generated_html
    /\ \E d \in CallDocuments :
          /\ d.experience = data.experience
          /\ d.portfolio # data.portfolio
          /\ PortfolioHtml(d) # generated_html

\* C17: whenever a script run has ended and the page waits for the user, no
\* handler being in execution, ai_loading is None, so that the generation
\* buttons of the next run are not disabled.
C17_MarkerClearAtRest ==
    pc = "idle" => ai_loading = None

\* C18: when the last attempt of the call got a response text from the
\* service, the skills, refinement and cover-letter handlers have applied the
\* stripped text to the Document by the time they return, whatever the text
\* says: its tokens are among the skills, it is the bullets / description of
\* the refined entry, or it is the cover letter draft.
C18_SuccessIsApplied ==
    (pc = "returned" /\ last.kind = "text") =>
        /\ handler.use = "skills" =>
              Range(ParseSkills(strip(last.text))) \subseteq Range(data.skills)
        /\ handler.use = "refine" =>
              \A i \in 1..Len(data[handler.section]) :
                 data[handler.section][i].id = handler.id =>
                    data[handler.section][i][BulletField(handler.section)]
                       = strip(last.text)
        /\ handler.use = "cover" => data.cover_letter_draft = strip(last.text)

====
